---- MODULE Spec2Model ----
(***************************************************************************)
(* panopticon: a radar-style display of the per-channel peak levels of a   *)
(* 7.1 output device (src/src/main.rs).                                    *)
(*                                                                         *)
(* Number representations used throughout:                                 *)
(*  - an f32 peak value v in [0,1] is the numerator n of n / Den, with     *)
(*    Den = 2^PeakBits.  For these dyadic values the f32 product v * 255.  *)
(*    is exact (n * 255 < 2^24), so the cast to u8 is computed exactly.    *)
(*  - an f32 length is a rational <<num, den>> in pixels.                  *)
(*  - a Pos2 is kept in polar form <<radius, degrees>> about the window    *)
(*    centre (WINDOW_SIZE/2, WINDOW_SIZE/2): the point                     *)
(*    x = cos(deg * PI / 180) * radius + centre.x,                         *)
(*    y = sin(deg * PI / 180) * radius + centre.y.                         *)
(*    The degrees are kept as the code passes them to cos/sin (not         *)
(*    reduced mod 360).                                                    *)
(***************************************************************************)
EXTENDS Integers, Sequences, FiniteSets, TLC

VARIABLES
    pc,            \* position of the single thread of the process
    exitCode,      \* NoExit while the process lives, else its exit code
    trace,         \* collaborator calls made by get_audio_interface, in order
    channel_count, \* value returned by GetMeteringChannelCount (NoCount before)
    wedges,        \* the 7 polygons held by PanApp (empty before they are built)
    PEAK_VALUES,   \* the static mut buffer of update
    calls,         \* collaborator calls made by the latest run of update, in order
    angle,         \* sweep angle computed by the latest run of update
    now,           \* wall clock (ms since the epoch) as last read
    ticks          \* number of times update was entered

vars == <<pc, exitCode, trace, channel_count, wedges, PEAK_VALUES, calls, angle, now, ticks>>

----------------------------------------------------------------------------
\* Bounds of the model.

\* peak values are multiples of 1 / 2^PeakBits
PeakBits == 7
\* update is entered at most MaxTicks times in Spec and SpecColor
MaxTicks == 2
\* update is entered at most MaxSweepTicks times in SpecSweep
MaxSweepTicks == 2
\* SpecSweep starts the process at any wall-clock time in 0..MaxStart
MaxStart == 3600

Den == 2 ^ PeakBits

----------------------------------------------------------------------------
\* Constants of the program.

FRONT_LEFT == 0
FRONT_RIGHT == 1
FRONT == 2
REAR_LEFT == 4
REAR_RIGHT == 5
LEFT == 6
RIGHT == 7

WINDOW_SIZE == 320
INNER_RADIUS_FACTOR == <<4, 10>>
OUTER_RADIUS == <<WINDOW_SIZE \div 2 - 20, 1>>

\* the channel count the program requires
ExpectedChannels == 8
\* delay passed to request_repaint_after, in ms
RepaintDelayMs == 33
\* exit code of a Rust process whose main thread panicked
PanicExitCode == 101

NoExit == 0 - 1
NoCount == 0 - 1
NoAngle == 0 - 1

\* product of two lengths / factors
Mul(a, b) == <<a[1] * b[1], a[2] * b[2]>>

\* Pos2 at distance r from the centre in direction theta (degrees)
Polar(r, theta) == <<r, theta>>
Center == Polar(<<0, 1>>, 0)

\* egui's Color32 values, as <<r, g, b, a>>
from_rgba_premultiplied(r, g, b, a) == <<r, g, b, a>>
BLACK == <<0, 0, 0, 255>>
GREEN == <<0, 255, 0, 255>>
LIGHT_GREEN == <<144, 238, 144, 255>>
TRANSPARENT == <<0, 0, 0, 0>>

----------------------------------------------------------------------------
\* Geometry builder.

\* the elements of a Rust Range<i32> start..end, in order
RangeSeq(range) ==
    IF range[2] > range[1]
    THEN [i \in 1..(range[2] - range[1]) |-> range[1] + i - 1]
    ELSE <<>>

Rev(s) == [i \in 1..Len(s) |-> s[Len(s) + 1 - i]]

\* mutant: the inner arc is not reversed
arc_points_inner_forward(range) ==
    LET thetas == RangeSeq(range)
    IN  [i \in 1..Len(thetas) |-> Polar(OUTER_RADIUS, thetas[i])]
        \o [i \in 1..Len(thetas) |-> Polar(Mul(OUTER_RADIUS, INNER_RADIUS_FACTOR), thetas[i])]

arc_points(range) ==
    LET thetas == RangeSeq(range)
        points == [i \in 1..Len(thetas) |-> Polar(OUTER_RADIUS, thetas[i])]
        inner_points ==
            [i \in 1..Len(thetas) |->
                Polar(Mul(OUTER_RADIUS, INNER_RADIUS_FACTOR), Rev(thetas)[i])]
    IN  points \o inner_points

Slots == {"front", "front_right", "right", "rear_right", "rear_left", "left", "front_left"}

\* mutant: the right wedge stops one degree early
WedgeRangeShortRight ==
    [front |-> <<250, 291>>, front_right |-> <<290, 341>>, right |-> <<340, 390>>,
     rear_right |-> <<30, 91>>, rear_left |-> <<90, 151>>, left |-> <<150, 201>>,
     front_left |-> <<200, 251>>]

\* the ranges get_audio_interface passes to arc_points
WedgeRange ==
    [front |-> <<250, 291>>, front_right |-> <<290, 341>>, right |-> <<340, 391>>,
     rear_right |-> <<30, 91>>, rear_left |-> <<90, 151>>, left |-> <<150, 201>>,
     front_left |-> <<200, 251>>]

BuildWedges == [s \in Slots |-> arc_points(WedgeRange[s])]

NoWedges == [s \in Slots |-> <<>>]

----------------------------------------------------------------------------
\* Startup: main and get_audio_interface.

Call(name, ok) == [call |-> name, ok |-> ok, arg |-> <<>>]

\* MessageBoxA(None, error.as_ptr(), "Error", MB_OK): blocks until dismissed.
\* error is a Rust String, which is not NUL-terminated, so the text shown is the
\* formatted message followed by whatever bytes precede the next NUL in memory:
\* tail is "" when a NUL follows directly and "garbage" otherwise.
MessageBoxA(text, tail) == [call |-> "MessageBoxA", ok |-> TRUE, arg |-> <<text, tail>>]

Tails == {"", "garbage"}

\* values GetMeteringChannelCount may report
ChannelCounts == {2, 6, ExpectedChannels, ExpectedChannels + 2}

\* std::process::exit(code)
Exit(code) ==
    /\ pc' = "exited"
    /\ exitCode' = code

\* main: if let Err(e) = get_audio_interface() { error!(..); std::process::exit(1) }
MainErr == Exit(1)

\* CoInitialize(None); on failure a message box is shown and startup goes on
CoInitializeStep(ok, tail) ==
    /\ pc = "CoInitialize"
    /\ trace' = IF ok
                THEN Append(trace, Call("CoInitialize", TRUE))
                ELSE trace \o <<Call("CoInitialize", FALSE), MessageBoxA("Failed to init", tail)>>
    /\ pc' = "CoCreateInstance"
    /\ UNCHANGED <<exitCode, channel_count, wedges, PEAK_VALUES, calls, angle, now, ticks>>

\* a fallible collaborator call followed by `?`
TryStep(at, name, ok, next) ==
    /\ pc = at
    /\ trace' = Append(trace, Call(name, ok))
    /\ IF ok
       THEN pc' = next /\ UNCHANGED exitCode
       ELSE MainErr
    /\ UNCHANGED <<channel_count, wedges, PEAK_VALUES, calls, angle, now, ticks>>

CoCreateInstanceStep(ok) ==
    TryStep("CoCreateInstance", "CoCreateInstance", ok, "GetDefaultAudioEndpoint")

GetDefaultAudioEndpointStep(ok) ==
    TryStep("GetDefaultAudioEndpoint", "GetDefaultAudioEndpoint", ok, "Activate")

ActivateStep(ok) ==
    TryStep("Activate", "Activate", ok, "GetMeteringChannelCount")

\* mutant: only too few channels are rejected
WrongChannelCountTooFew(n) == n < ExpectedChannels

\* if channel_count != 8
WrongChannelCount(n) == n # ExpectedChannels

\* GetMeteringChannelCount()?, the channel-count check, the seven arc_points
\* calls and the entry into eframe::run_native
GetMeteringChannelCountStep(ok, n, tail) ==
    /\ pc = "GetMeteringChannelCount"
    /\ UNCHANGED <<PEAK_VALUES, calls, angle, now, ticks>>
    /\ IF ~ok
       THEN /\ trace' = Append(trace, Call("GetMeteringChannelCount", FALSE))
            /\ MainErr
            /\ UNCHANGED <<channel_count, wedges>>
       ELSE /\ channel_count' = n
            /\ IF WrongChannelCount(n)
               THEN /\ trace' = trace \o
                         <<Call("GetMeteringChannelCount", TRUE),
                           MessageBoxA(<<"Expected 8 channels for 7.1 audio, found only", n>>, tail)>>
                    /\ Exit(1)
                    /\ UNCHANGED wedges
               ELSE /\ trace' = trace \o
                         <<Call("GetMeteringChannelCount", TRUE), Call("run_native", TRUE)>>
                    /\ wedges' = BuildWedges
                    /\ pc' = "run_native"
                    /\ UNCHANGED exitCode

\* the window is closed: run_native ends, get_audio_interface returns Ok(()),
\* main returns
CloseWindow ==
    /\ pc = "run_native"
    /\ Exit(0)
    /\ UNCHANGED <<trace, channel_count, wedges, PEAK_VALUES, calls, angle, now, ticks>>

----------------------------------------------------------------------------
\* Refresh cycle: PanApp::update.

\* `x as u8` for the f32 x = num / den: truncates toward zero and saturates
CastU8(num, den) ==
    IF num <= 0 THEN 0
    ELSE IF num \div den > 255 THEN 255
    ELSE num \div den

\* mutant: scaled by 256 and converted by a wrapping cast
IntensityWrap256(meter) == ((meter * 256) \div Den) % 256

\* mutant: the value is cast without being scaled
IntensityUnscaled(meter) == CastU8(meter, Den)

\* (meter * 255.) as u8
Intensity(meter) == CastU8(meter * 255, Den)

\* mutant: the rear-left wedge reads the unused channel 3
WedgeOrderRearLeft3 ==
    << [slot |-> "front", ch |-> FRONT],
       [slot |-> "front_right", ch |-> FRONT_RIGHT],
       [slot |-> "right", ch |-> RIGHT],
       [slot |-> "rear_right", ch |-> REAR_RIGHT],
       [slot |-> "rear_left", ch |-> 3],
       [slot |-> "left", ch |-> LEFT],
       [slot |-> "front_left", ch |-> FRONT_LEFT] >>

\* the (shape, meter) pairs update iterates over, in order
WedgeOrder ==
    << [slot |-> "front", ch |-> FRONT],
       [slot |-> "front_right", ch |-> FRONT_RIGHT],
       [slot |-> "right", ch |-> RIGHT],
       [slot |-> "rear_right", ch |-> REAR_RIGHT],
       [slot |-> "rear_left", ch |-> REAR_LEFT],
       [slot |-> "left", ch |-> LEFT],
       [slot |-> "front_left", ch |-> FRONT_LEFT] >>

Stroke(width, color) == [width |-> width, color |-> color]

PathShape(points, closed, fill, stroke) ==
    [shape |-> "path", points |-> points, closed |-> closed, fill |-> fill, stroke |-> stroke]

CircleShape(radius, fill, stroke, center) ==
    [shape |-> "circle", radius |-> radius, fill |-> fill, stroke |-> stroke, center |-> center]

InnerRadius == Mul(OUTER_RADIUS, INNER_RADIUS_FACTOR)

WedgeDraws(peaks) ==
    [i \in 1..Len(WedgeOrder) |->
        PathShape(wedges[WedgeOrder[i].slot], TRUE,
                  from_rgba_premultiplied(Intensity(peaks[WedgeOrder[i].ch]), 0, 0, 255),
                  Stroke(1, BLACK))]

RingFactors == << <<10, 10>>, <<8, 10>>, <<6, 10>>, <<4, 10>>, <<2, 10>> >>

RingDraws ==
    [i \in 1..Len(RingFactors) |->
        CircleShape(Mul(InnerRadius, RingFactors[i]), BLACK, Stroke(1, GREEN), Center)]

AxisDraws ==
    << PathShape(<<Polar(InnerRadius, 180), Polar(InnerRadius, 0)>>,
                 FALSE, TRANSPARENT, Stroke(1, GREEN)),
       PathShape(<<Polar(InnerRadius, 270), Polar(InnerRadius, 90)>>,
                 FALSE, TRANSPARENT, Stroke(1, GREEN)) >>

\* mutant: degrees per tick of 33 ms instead of per 10 ms
SweepAngleWrongRate(t) == (t \div RepaintDelayMs) % 360

\* now().duration_since(UNIX_EPOCH).as_millis() / 10 % 360
SweepAngle(t) == (t \div 10) % 360

SweepDraw(a) ==
    PathShape(<<Center, Polar(InnerRadius, a)>>, FALSE, TRANSPARENT, Stroke(2, LIGHT_GREEN))

Add(shapes) == [i \in 1..Len(shapes) |-> [call |-> "painter.add", shape |-> shapes[i]]]

PeakQuery(ok) == [call |-> "GetChannelsPeakValues", ok |-> ok]

RepaintAfter(ms) == [call |-> "request_repaint_after", ms |-> ms]

\* mutant: the sweep line is drawn before the rings and the axes
DrawCallsSweepFirst(peaks, a) ==
    Add(WedgeDraws(peaks)) \o Add(<<SweepDraw(a)>>) \o Add(RingDraws) \o Add(AxisDraws)

\* the painter.add calls of one run of update, in order
DrawCalls(peaks, a) ==
    Add(WedgeDraws(peaks)) \o Add(RingDraws) \o Add(AxisDraws) \o Add(<<SweepDraw(a)>>)

\* update after the peak query wrote sample into PEAK_VALUES; the clock reads t
Render(sample, t) ==
    /\ PEAK_VALUES' = sample
    /\ now' = t
    /\ angle' = SweepAngle(t)
    /\ calls' = <<PeakQuery(TRUE)>> \o DrawCalls(sample, SweepAngle(t))
                    \o <<RepaintAfter(RepaintDelayMs)>>
    /\ UNCHANGED <<pc, exitCode>>

\* mutant: the failed query is ignored and the last known values are drawn
PeakQueryFailedKeepDrawing(t) ==
    /\ now' = t
    /\ angle' = SweepAngle(t)
    /\ calls' = <<PeakQuery(FALSE)>> \o DrawCalls(PEAK_VALUES, SweepAngle(t))
                    \o <<RepaintAfter(RepaintDelayMs)>>
    /\ UNCHANGED <<pc, exitCode, PEAK_VALUES>>

\* GetChannelsPeakValues(..).unwrap() on an Err: the thread panics before the
\* clock is read, and the process ends
PeakQueryFailed(t) ==
    /\ calls' = <<PeakQuery(FALSE)>>
    /\ pc' = "exited"
    /\ exitCode' = PanicExitCode
    /\ UNCHANGED <<PEAK_VALUES, now, angle>>

\* one run of update; the collaborator answers the peak query with sample (ok)
\* or an error, and the wall clock reads t
update(ok, sample, t) ==
    /\ pc = "run_native"
    /\ ticks' = ticks + 1
    /\ IF ok THEN Render(sample, t) ELSE PeakQueryFailed(t)
    /\ UNCHANGED <<trace, channel_count, wedges>>

----------------------------------------------------------------------------
\* Inputs.

Channels == 0..(ExpectedChannels - 1)

Levels == {0, Den \div 2, Den}

\* a base level b on every channel, but for one channel j at level a and the
\* channel no wedge shows (3) at level c
PeakSamples ==
    { [i \in Channels |-> IF i = 3 THEN c ELSE IF i = j THEN a ELSE b] :
        a \in Levels, b \in Levels, c \in Levels, j \in Channels }

\* the same level on every channel, for every level
UniformSamples == { [i \in Channels |-> a] : a \in 0..Den }

Startup ==
    \/ \E ok \in BOOLEAN, tail \in Tails : CoInitializeStep(ok, tail)
    \/ \E ok \in BOOLEAN : CoCreateInstanceStep(ok)
    \/ \E ok \in BOOLEAN : GetDefaultAudioEndpointStep(ok)
    \/ \E ok \in BOOLEAN : ActivateStep(ok)
    \/ \E ok \in BOOLEAN, n \in ChannelCounts, tail \in Tails :
            GetMeteringChannelCountStep(ok, n, tail)
    \/ CloseWindow

InitAt(t) ==
    /\ pc = "CoInitialize"
    /\ exitCode = NoExit
    /\ trace = <<>>
    /\ channel_count = NoCount
    /\ wedges = NoWedges
    /\ PEAK_VALUES = [i \in Channels |-> 0]
    /\ calls = <<>>
    /\ angle = NoAngle
    /\ now = t
    /\ ticks = 0

Init == InitAt(0)

Tick ==
    /\ ticks < MaxTicks
    /\ \/ \E sample \in PeakSamples : update(TRUE, sample, now + RepaintDelayMs)
       \/ update(FALSE, PEAK_VALUES, now + RepaintDelayMs)

Next == Startup \/ Tick

Spec == Init /\ [][Next]_vars

\* every level, the same on all channels
InitColor == InitAt(0)

TickColor ==
    /\ ticks < MaxTicks
    /\ \/ \E sample \in UniformSamples : update(TRUE, sample, now + RepaintDelayMs)
       \/ update(FALSE, PEAK_VALUES, now + RepaintDelayMs)

NextColor == Startup \/ TickColor

SpecColor == InitColor /\ [][NextColor]_vars

\* one rotation of the sweep, in ms (360 degrees at 10 ms per degree)
RotationMs == 360 * 10

\* every starting time of one rotation, at the requested cadence or a rotation later
InitSweep == \E t \in 0..MaxStart : InitAt(t)

TickSweep ==
    /\ ticks < MaxSweepTicks
    /\ \E ok \in BOOLEAN, d \in {RepaintDelayMs, RotationMs} :
            update(ok, [i \in Channels |-> 0], now + d)

NextSweep == Startup \/ TickSweep

SpecSweep == InitSweep /\ [][NextSweep]_vars

----------------------------------------------------------------------------
\* Vocabulary of the properties.

\* the latest run of update sampled successfully / failed to sample
TickSucceeded == calls # <<>> /\ calls[1].ok
TickFailed == calls # <<>> /\ ~calls[1].ok

IsDraw(c) == c.call = "painter.add"
IsPolygon(c) == IsDraw(c) /\ c.shape.shape = "path" /\ c.shape.closed
IsRing(c) == IsDraw(c) /\ c.shape.shape = "circle"
IsSegment(c) == IsDraw(c) /\ c.shape.shape = "path" /\ ~c.shape.closed /\ Len(c.shape.points) = 2

\* the channel index the documentation gives each wedge
SlotIndex ==
    [front_left |-> 0, front_right |-> 1, front |-> 2, rear_left |-> 4,
     rear_right |-> 5, left |-> 6, right |-> 7]

\* the range the documentation gives each wedge
SlotRange ==
    [front |-> <<250, 291>>, front_right |-> <<290, 341>>, right |-> <<340, 391>>,
     rear_right |-> <<30, 91>>, rear_left |-> <<90, 151>>, left |-> <<150, 201>>,
     front_left |-> <<200, 251>>]

\* the draw commands of the emitted frame that show the polygon of slot s
WedgeCalls(cs, w, s) == {i \in 1..Len(cs) : IsPolygon(cs[i]) /\ cs[i].shape.points = w[s]}

\* the fill colour of the wedge of slot s in the frame cs
WedgeFill(cs, w, s) == cs[CHOOSE i \in WedgeCalls(cs, w, s) : TRUE].shape.fill

WedgeRed(s) == WedgeFill(calls, wedges, s)[1]

\* the frame without its time-driven sweep line
StaticPart(cs) == SelectSeq(cs, LAMBDA c : IsDraw(c) /\ (IsPolygon(c) \/ IsRing(c)
                                              \/ c.shape.points[1] # Center))

FrontOnly == [i \in Channels |-> IF i = 2 THEN Den ELSE 0]

----------------------------------------------------------------------------
\* C1: once the audio collaborator has reported a channel count other than 8,
\* the process has exited with code 1, the render loop was never entered, no
\* tick has run and no peak values were queried.
C1_WrongChannelCountExits ==
    (channel_count # NoCount /\ channel_count # 8) =>
        /\ pc = "exited"
        /\ exitCode = 1
        /\ \A i \in 1..Len(trace) : trace[i].call # "run_native"
        /\ ticks = 0
        /\ calls = <<>>
        /\ wedges = NoWedges

C1_Witness ==
    /\ channel_count = 6
    /\ pc = "exited"
    /\ trace[Len(trace)].call = "MessageBoxA"

\* C2: every failed startup step (a failed collaborator call, or a channel count
\* other than 8) is followed by a message box and nothing else, and leaves the
\* process exited with code 1 without a tick.
StartupErrorAt(i) ==
    \/ ~trace[i].ok
    \/ trace[i].call = "GetMeteringChannelCount" /\ channel_count # 8

C2_StartupErrorsFatalWithMessage ==
    \A i \in 1..Len(trace) :
        StartupErrorAt(i) =>
            /\ Len(trace) = i + 1
            /\ trace[i + 1].call = "MessageBoxA"
            /\ pc = "exited"
            /\ exitCode = 1
            /\ ticks = 0

\* C3: in every emitted frame each wedge is shown exactly once and its red
\* intensity is a function of the peak value at its documented channel index
\* alone: wedges whose channels hold equal values are equally red, within a frame
\* and from one frame to the next; the sample with only Front at 1.0 gives
\* Front red 255 and the other six red 0; and two successive samples that
\* agree everywhere but at index 3 give the same wedges, rings and axes.
C3_FrameInv ==
    TickSucceeded =>
        /\ \A s \in Slots : Cardinality(WedgeCalls(calls, wedges, s)) = 1
        /\ \A s1 \in Slots, s2 \in Slots :
              PEAK_VALUES[SlotIndex[s1]] = PEAK_VALUES[SlotIndex[s2]]
                  => WedgeRed(s1) = WedgeRed(s2)
        /\ (\A i \in Channels \ {3} : PEAK_VALUES[i] = FrontOnly[i]) =>
              \A s \in Slots : WedgeRed(s) = IF s = "front" THEN 255 ELSE 0

C3_FrameStep ==
    (TickSucceeded /\ TickSucceeded') =>
        /\ \A s \in Slots :
              PEAK_VALUES'[SlotIndex[s]] = PEAK_VALUES[SlotIndex[s]]
                  => WedgeFill(calls', wedges', s) = WedgeFill(calls, wedges, s)
        /\ (\A i \in Channels \ {3} : PEAK_VALUES'[i] = PEAK_VALUES[i])
              => StaticPart(calls') = StaticPart(calls)

C3_RedFromOwnChannelOnly == [](C3_FrameInv) /\ [][C3_FrameStep]_vars

C3_Witness ==
    /\ TickSucceeded
    /\ PEAK_VALUES = [FrontOnly EXCEPT ![3] = Den]
    /\ WedgeRed("front") = 255
    /\ WedgeRed("rear_left") = 0
    /\ ticks = 2

\* C4: every wedge fill has red in 0..255, green 0, blue 0 and alpha 255; peak
\* 0.0 gives red 0 and peak 1.0 gives red 255; and a larger peak never gives a
\* smaller red.
C4_ColorInv ==
    TickSucceeded =>
        \A s \in Slots :
            /\ WedgeRed(s) \in 0..255
            /\ WedgeFill(calls, wedges, s)[2] = 0
            /\ WedgeFill(calls, wedges, s)[3] = 0
            /\ WedgeFill(calls, wedges, s)[4] = 255
            /\ PEAK_VALUES[SlotIndex[s]] = 0 => WedgeRed(s) = 0
            /\ PEAK_VALUES[SlotIndex[s]] = Den => WedgeRed(s) = 255

C4_ColorStep ==
    (TickSucceeded /\ TickSucceeded') =>
        \A s \in Slots :
            PEAK_VALUES[SlotIndex[s]] < PEAK_VALUES'[SlotIndex[s]]
                => WedgeFill(calls, wedges, s)[1] <= WedgeFill(calls', wedges', s)[1]

C4_IntensityMonotonic == [](C4_ColorInv) /\ [][C4_ColorStep]_vars

C4_Witness ==
    /\ TickSucceeded
    /\ ticks = 2
    /\ PEAK_VALUES[FRONT] = Den - 1
    /\ WedgeRed("front") = 253

\* C5: when all 8 peak values are 0.5 the 7 wedges have the same red, and it is
\* within 1 of 128.
C5_HalfLevel ==
    (TickSucceeded /\ \A i \in Channels : 2 * PEAK_VALUES[i] = Den) =>
        /\ \A s \in Slots : WedgeRed(s) = WedgeRed("front")
        /\ WedgeRed("front") \in 127..129

C5_Witness ==
    /\ TickSucceeded
    /\ \A i \in Channels : 2 * PEAK_VALUES[i] = Den
    /\ \A s \in Slots : WedgeRed(s) = 127

\* C6: the degrees sampled by the 7 wedges held by the application, reduced mod
\* 360, cover 0..359; no degree is sampled by more than two wedges; the degrees
\* sampled by two wedges are the 7 boundaries, each the last degree of one wedge
\* and the first of another.
Degrees(s) == {wedges[s][i][2] % 360 : i \in 1..(Len(wedges[s]) \div 2)}
Samplers(d) == {s \in Slots : d \in Degrees(s)}
FirstDegree(s) == wedges[s][1][2]
LastDegree(s) == wedges[s][Len(wedges[s]) \div 2][2]
Boundaries == {250, 290, 340, 30, 90, 150, 200}

C6_RangesTile ==
    (pc = "run_native") =>
        /\ UNION {Degrees(s) : s \in Slots} = 0..359
        /\ \A s1 \in Slots : \A s2 \in Slots \ {s1} : \A s3 \in Slots \ {s1, s2} :
              Degrees(s1) \cap Degrees(s2) \cap Degrees(s3) = {}
        /\ UNION {Degrees(p[1]) \cap Degrees(p[2]) : p \in {q \in Slots \X Slots : q[1] # q[2]}}
              = Boundaries
        /\ \A d \in Boundaries :
              \E s1 \in Slots : \E s2 \in Slots \ {s1} :
                  /\ Degrees(s1) \cap Degrees(s2) = {d}
                  /\ LastDegree(s1) % 360 = d
                  /\ FirstDegree(s2) % 360 = d
        /\ LastDegree("front") = 290
        /\ FirstDegree("front_right") = 290

C6_Witness ==
    /\ pc = "run_native"
    /\ Samplers(290) = {"front", "front_right"}
    /\ Samplers(0) = {"right"}

\* C7: each wedge held by the application has 2 * (end - start) points: point i
\* (0-based) of the first half is at radius R and angle start + i, point i of
\* the second half is at radius R * f and angle end - 1 - i, and points i and
\* 2n - 1 - i are at the same angle.
C7_WedgeShape ==
    (pc = "run_native") =>
        \A s \in Slots :
            LET start == SlotRange[s][1]
                end == SlotRange[s][2]
                n == end - start
                w == wedges[s]
            IN  /\ Len(w) = 2 * n
                /\ \A i \in 1..n :
                      /\ w[i] = <<OUTER_RADIUS, start + i - 1>>
                      /\ w[n + i] = <<Mul(OUTER_RADIUS, INNER_RADIUS_FACTOR), end - i>>
                      /\ w[i][2] = w[2 * n + 1 - i][2]

C7_Witness ==
    /\ pc = "run_native"
    /\ Len(wedges["right"]) = 102
    /\ wedges["right"][51][2] = 390
    /\ wedges["right"][52][2] = 390
    /\ wedges["right"][102][2] = 340

\* C8: the sweep angle drawn by a tick at wall-clock time t is in 0..359 and is
\* the number of whole 10 ms steps into the current 3600 ms rotation; a tick
\* 3600 ms after another draws the same angle; within one rotation a later tick
\* never draws a smaller angle; a tick 33 ms after another is 3 or 4 degrees
\* further round.
SweepDrawn == calls[Len(calls) - 1].shape.points[2][2]

C8_AngleInv ==
    TickSucceeded =>
        /\ angle \in 0..359
        /\ SweepDrawn = angle
        /\ angle * 10 <= now % 3600
        /\ now % 3600 < angle * 10 + 10

C8_AngleStep ==
    (TickSucceeded /\ TickSucceeded' /\ ticks' = ticks + 1) =>
        /\ now' = now + 3600 => angle' = angle
        /\ (now' >= now /\ now' \div 3600 = now \div 3600) => angle' >= angle
        /\ now' = now + 33 => (angle' - angle) % 360 \in {3, 4}

C8_SweepRotation == [](C8_AngleInv) /\ [][C8_AngleStep]_vars

C8_Witness ==
    /\ TickSucceeded
    /\ ticks = 2
    /\ now = 3599 + 33
    /\ angle = 3

\* C9: a tick that samples successfully makes 17 collaborator calls: the peak
\* query, the 7 wedge polygons in the order of the wedge list, 5 rings, 2 axis
\* segments, the sweep line from the centre, and one repaint request of 33 ms;
\* and the collaborator calls change only by a whole tick.
C9_FrameOrder ==
    TickSucceeded =>
        /\ Len(calls) = 17
        /\ calls[1].call = "GetChannelsPeakValues"
        /\ \A i \in 2..8 : IsPolygon(calls[i])
        /\ \A i \in 9..13 : IsRing(calls[i])
        /\ \A i \in 14..15 : IsSegment(calls[i]) /\ calls[i].shape.points[1] # Center
        /\ IsSegment(calls[16]) /\ calls[16].shape.points[1] = Center
        /\ calls[17] = [call |-> "request_repaint_after", ms |-> 33]
        /\ Cardinality({i \in 1..17 : IsDraw(calls[i])}) = 15

C9_TickStep ==
    (calls' # calls) =>
        /\ ticks' = ticks + 1
        /\ TickSucceeded' \/ TickFailed'

C10_FailedInv ==
    TickFailed =>
        /\ Len(calls) = 1
        /\ pc = "exited"
        /\ exitCode # NoExit

C10_NoStepAfterFailure == ~TickFailed

C10_SamplingFailureEndsRun == [](C10_FailedInv) /\ [][C10_NoStepAfterFailure]_vars

C10_Witness ==
    /\ TickFailed
    /\ ticks = 2
    /\ PEAK_VALUES = FrontOnly

====
